---- MODULE Spec2Model ----
(***************************************************************************)
(* ProjectionEngine.runProjection / abort of umadb-inspector, together     *)
(* with the part of UmaDBClient.readEvents the runner depends on.          *)
(*                                                                         *)
(* JavaScript is single threaded: a run gives up the thread only at its    *)
(* one await (readEvents).  `thread` names the run that is inside a        *)
(* synchronous section (the for loop over one batch); every other handler  *)
(* (another run starting, a read resolving, abort()) waits for thread = 0. *)
(* A run is started by POST /api/projections/run on the server's one       *)
(* ProjectionEngine.  The handler waits at `await runProjection(...)`; its  *)
(* continuation (the catch, the 'close' listener) is a step of its own,    *)
(* taken after the promise has settled.                                    *)
(***************************************************************************)
EXTENDS Integers, Sequences, FiniteSets, TLC

\* ---------------------------------------------------------------- bounds
MaxPages == 2          \* the largest log holds MaxPages full pages
MaxStride == 2         \* distance between two matching events' positions
MaxConcEvents == 3     \* the largest log two concurrent runs read
MaxSourceBatch == 2    \* the longest batch short of a page an event source answers with
MaxSourceReads == 3    \* the reads of one run such an event source answers

\* ------------------------------------------------------ program constants
PageLimit == 1000      \* readParams.limit
ProgressEvery == 100   \* eventsProcessed % 100
StartPosition == 1     \* currentPosition = 1

Runs == {1, 2}
NoRun == 0
Exited == -1           \* value of thread once the server process has exited

VARIABLES
    numEvents,         \* event source: number of events matching the filters
    stride,            \* event source: gap between matching positions
    callers,           \* the runs that may be started in this behaviour
    inputs,            \* which inputs callers may pass: "any", "plain", "source", "paged", "debug", "both", "client", "sse"
    abortController,   \* ProjectionEngine.abortController (NoRun = null)
    aborted,           \* aborted[c]: signal of the controller created by run c
    thread,            \* run inside a synchronous section, NoRun, or Exited
    runs,              \* runs[r]: the locals of run r
    trace,             \* trace[r]: what run r did (onProgress calls, project calls)
    session,           \* the debug session of the debug session manager
    umaDB,             \* the UmaDBClient: its fields and its connect() calls
    sse                \* the projection page: its state and its runProjection() calls

vars == <<numEvents, stride, callers, inputs, abortController, aborted, thread, runs,
          trace, session, umaDB, sse>>

\* ------------------------------------------------------------ JSON values
\* A JavaScript value: type tag t, payload n, and u = "carries a property
\* whose value is undefined" (only meaningful for objects).
Val(t, n, u) == [t |-> t, n |-> n, u |-> u]
Null == Val("null", 0, FALSE)
Undefined == Val("undef", 0, FALSE)
NaN == Val("nan", 0, FALSE)
Num(k) == Val("num", k, FALSE)
Str(k) == Val("str", k, FALSE)
Bool(b) == Val("bool", IF b THEN 1 ELSE 0, FALSE)
Obj(k, u) == Val("obj", k, u)

\* JSON text, or NoText when JSON.stringify returns undefined.
NoText == [t |-> "none", n |-> 0]

\* JSON.stringify: undefined has no text, NaN becomes null, properties whose
\* value is undefined are dropped.
JSONstringify(v) ==
    IF v.t = "undef" THEN NoText
    ELSE IF v.t = "nan" THEN [t |-> "null", n |-> 0]
    ELSE [t |-> v.t, n |-> v.n]

\* JSON.parse throws a SyntaxError on undefined.
ParseThrows(txt) == txt.t = "none"

\* JSON.parse of a JSON text.
JSONparse(txt) == Val(txt.t, txt.n, FALSE)

\* ------------------------------------------------------------ event source
NoUuid == 0
\* Every third matching event carries no uuid (uuid: z.string().nullable()).
EventAt(i) ==
    [uuid |-> IF i % 3 = 0 THEN NoUuid ELSE i,
     position |-> StartPosition + (i - 1) * stride]

EventCounts ==
    {0, 1, 5, ProgressEvery, PageLimit, PageLimit + 1, MaxPages * PageLimit}

ReadEventsAfter(start, limit) ==
    LET before == (start - StartPosition) \div stride + 1
        skipped == IF before > numEvents THEN numEvents ELSE before
        left == numEvents - skipped
        len == IF left < limit THEN left ELSE limit
    IN [first |-> skipped + 1, len |-> len, has_more |-> (len = limit)]
\* UmaDBClient.readEvents: the first `limit` matching events at or after
\* `start`, and has_more = (events.length === limit).  A batch is the index
\* range first .. first + len - 1 of the matching events.
ReadEvents(start, limit) ==
    LET before == IF start <= StartPosition THEN 0
                  ELSE ((start - StartPosition) + stride - 1) \div stride
        skipped == IF before > numEvents THEN numEvents ELSE before
        left == numEvents - skipped
        len == IF left < limit THEN left ELSE limit
    IN [first |-> skipped + 1, len |-> len, has_more |-> (len = limit)]

EmptyBatch == [first |-> 1, len |-> 0, has_more |-> FALSE]

\* -------------------------------------------------------------- user code
\* The user's code: which project function it defines (kind), whether it
\* defines one at all, and whether loading it throws (and if so, whether the
\* message contains the text 'Error processing event').
CodeKinds == {"hash", "obj", "falsy", "undef"}
LoadErrors == {"none", "plain", "marker"}
Codes ==
    [kind : CodeKinds, defines : {TRUE}, loadError : {"none"}]
        \cup [kind : {"hash"}, defines : BOOLEAN, loadError : {"plain", "marker"}]
        \cup [kind : {"hash"}, defines : {FALSE}, loadError : {"none"}]

InitialStates == {Null, Num(0), Num(5)}

\* The inputs two concurrent callers pass: one projection, with or without
\* its project function, and two initial states.
ConcCodes == {c \in Codes : c.kind = "hash" /\ c.loadError = "none"}
CodesOf(which) == IF which = "any" THEN Codes ELSE ConcCodes
InitialStatesOf(which) == IF which = "any" THEN InitialStates ELSE {Null, Num(5)}

\* JavaScript truthiness of a value.
Falsy(v) == v.t \in {"null", "undef", "nan"} \/ v \in {Num(0), Str(0), Bool(FALSE)}

\* POST /api/projections/run passes params.initialState || null.
HandlerInitialState(requested) == IF Falsy(requested) THEN Null ELSE requested

\* The initialState a request body may carry; Undefined is a body without one.
RequestStatesOf(which) ==
    IF which = "any" THEN InitialStatesOf(which) \cup {Undefined}
    ELSE InitialStatesOf(which)

\* Number(x) as the sample projections use it: the payload of a number or of
\* an object's counter, 0 for everything else.
AsNumber(v) == IF v.t \in {"num", "obj"} THEN v.n ELSE 0

\* The value project(state, event) returns inside the isolate.
Project(kind, state, event) ==
    CASE kind = "hash" ->
            Num((3 * AsNumber(state) + event.position) % 7)
      [] kind = "obj" ->
            Obj((AsNumber(state) + 1) % 5, TRUE)
      [] kind = "falsy" ->
            CASE event.position % 4 = 0 -> NaN
              [] event.position % 4 = 1 -> Num(0)
              [] event.position % 4 = 2 -> Str(0)
              [] OTHER -> Bool(FALSE)
      [] OTHER ->
            IF AsNumber(state) >= 2 THEN Undefined
            ELSE Num(AsNumber(state) + 1)

\* --------------------------------------------------------- error messages
Unknown == -1
NoError == [what |-> "none", uuid |-> NoUuid, marker |-> FALSE]
\* `Error processing event ${event.uuid || 'unknown'}: ...`
EventErrorMessage(event) ==
    [what |-> "event",
     uuid |-> IF event.uuid = NoUuid THEN Unknown ELSE event.uuid,
     marker |-> TRUE]
AbortedMessage == [what |-> "aborted", uuid |-> NoUuid, marker |-> FALSE]
NoProjectMessage == [what |-> "noproject", uuid |-> NoUuid, marker |-> FALSE]
LoadMessage(kind) == [what |-> "load", uuid |-> NoUuid, marker |-> (kind = "marker")]
ReadMessage(kind) == [what |-> "read", uuid |-> NoUuid, marker |-> (kind = "marker")]

\* errorMessage.includes('Error processing event')
IncludesMarker(msg) == msg.marker

\* ----------------------------------------------------------- progress
Progress(n, state, status, error) ==
    [events_processed |-> n, current_state |-> state, status |-> status, error |-> error]

\* ------------------------------------------------------------- run state
IdleRun ==
    [pc |-> "idle",
     code |-> [kind |-> "hash", defines |-> TRUE, loadError |-> "none"],
     initialState |-> Null,
     currentState |-> Null,
     eventsProcessed |-> 0,
     hasMore |-> FALSE,
     currentPosition |-> 0,
     batch |-> EmptyBatch,
     idx |-> 0,
     isolate |-> "none",      \* the run's ivm.Isolate: none, live, disposed
     attempt |-> 0]           \* attempt of the pending readEvents call (1 or 2)

IdleTrace ==
    [progress |-> <<>>,       \* the arguments of the onProgress calls, in order
     reads |-> 0,             \* readEvents calls issued
     readStart |-> 0,         \* start position of the last readEvents call
     calls |-> 0,             \* project invocations
     lastEvent |-> [uuid |-> NoUuid, position |-> 0], \* event passed to the last project invocation
     lastStateArg |-> Null,   \* state passed to the last project invocation
     lastResult |-> Null,     \* value the last project invocation returned
     failedAt |-> 0,          \* index of the event whose invocation failed
     abortSeen |-> FALSE,     \* this run's caller called abort() while it was in progress
     abortAsked |-> FALSE,    \* this run's caller called abort() at some time
     thrown |-> NoError,      \* the error runProjection rejected with
     requested |-> Null,      \* initialState of the request body (Undefined = absent)
     failure |-> "none",      \* how the failed invocation failed
     firstReadAfter |-> 0,    \* onProgress calls made before the first readEvents call
     readStatus |-> "none",   \* last readEvents call: pending, resolved, rejected
     attemptLog |-> <<>>,     \* outcomes of the attempts of that call, until its batch is consumed
     failedEvents |-> 0,      \* events the failed attempt of that call had received
     lastHasMore |-> "none",  \* has_more of the last batch received
     lastLen |-> 0,           \* events.length of the last batch received
     handler |-> "idle",      \* the request handler: idle, awaiting (runProjection), listening
     closed |-> "open",       \* the request's 'close' event: open, lost (no listener), handled
     disconnected |-> FALSE,  \* the caller has closed the connection
     callsAtClose |-> 0,      \* project invocations made when the connection closed
     large |-> FALSE,         \* the error progress of a failed load exceeds what the socket takes at once
     response |-> [sent |-> <<>>,     \* SSE events written to res before res.end()
                   ended |-> FALSE,   \* res.end() was called
                   afterEnd |-> 0,    \* res.write calls made after res.end()
                   lateError |-> FALSE]] \* a write after end has scheduled res's 'error'

\* this.abortController.signal.aborted
SignalAborted == abortController # NoRun /\ aborted[abortController]

\* The SSE events of the response: the connected event, and a progress event
\* with its events_processed and status.
Connected == [n |-> 0, status |-> "connected"]
Sse(p) == [n |-> p.events_processed, status |-> p.status]

\* res.write(...) of one SSE event; after res.end() nothing is sent any more
\* (what the late write does to the process is in HandlerContinues).
ResWrite(res, item) ==
    IF res.ended THEN [res EXCEPT !.afterEnd = @ + 1]
    ELSE [res EXCEPT !.sent = Append(@, item)]

\* res.end()
ResEnd(res) == [res EXCEPT !.ended = TRUE]

\* The handler's onProgress callback: write the progress event, and end the
\* response when its status is completed or error.
OnProgress(res, p) ==
    IF p.status \in {"completed", "error"}
    THEN ResEnd(ResWrite(res, Sse(p)))
    ELSE ResWrite(res, Sse(p))

\* The handler's catch (projectionError): write an error progress with
\* events_processed 0, then res.end().
HandlerCatch(res) == ResEnd(ResWrite(res, [n |-> 0, status |-> "error"]))

\* A run in flight: its locals and its trace, threaded through the steps of
\* one synchronous section.
Emit(st, p) ==
    [st EXCEPT !.trace.progress = Append(@, p),
               !.trace.response = OnProgress(@, p)]

OuterCatchAlways(st, msg) ==
    [Emit(st, Progress(0, st.run.initialState, "error", msg))
        EXCEPT !.run.pc = "threw", !.trace.thrown = msg]
\* catch (error) { if (!errorMessage.includes('Error processing event'))
\*   onProgress({events_processed: 0, current_state: initialState, ...}); throw error }
OuterCatch(st, msg) ==
    LET reported == IF IncludesMarker(msg) THEN st
                    ELSE Emit(st, Progress(0, st.run.initialState, "error", msg))
    IN [reported EXCEPT !.run.pc = "threw", !.trace.thrown = msg]

\* Final progress report, then runProjection returns.
FinalReport(st) ==
    [Emit(st, Progress(st.run.eventsProcessed, st.run.currentState, "completed", NoError))
        EXCEPT !.run.pc = "returned"]

\* Inner catch of the for loop: one error progress for the event, then
\* throw new Error(errorMessage), which the outer catch receives.
InnerCatchSwallows(st, event) == FinalReport(st)
InnerCatchCounted(st, event) ==
    LET msg == EventErrorMessage(event)
    IN OuterCatch(Emit(st, Progress(st.run.eventsProcessed + 1, st.run.currentState,
                                    "error", msg)), msg)
InnerCatch(st, event) ==
    LET msg == EventErrorMessage(event)
    IN OuterCatch(Emit(st, Progress(st.run.eventsProcessed, st.run.currentState,
                                    "error", msg)), msg)

\* Report initial progress: onProgress({events_processed: 0, current_state:
\* currentState, status: 'running'}), before the read loop.
InitialReportMissing(st) == st
InitialReport(st) ==
    Emit(st, Progress(0, st.run.currentState, "running", NoError))

\* await this.umaDB.readEvents({...readParams, start: currentPosition})
IssueRead(st) ==
    [st EXCEPT !.run.pc = "reading",
               !.run.attempt = 1,
               !.trace.reads = @ + 1,
               !.trace.readStart = st.run.currentPosition,
               !.trace.readStatus = "pending",
               !.trace.attemptLog = <<>>,
               !.trace.failedEvents = 0,
               !.trace.firstReadAfter =
                   IF st.trace.reads = 0 THEN Len(st.trace.progress) ELSE @]

\* while (hasMore && !this.abortController.signal.aborted) { ... } final report
WhileLoopUntilEmpty(st, signalAborted) ==
    IF ~signalAborted THEN IssueRead(st) ELSE FinalReport(st)
WhileLoop(st, signalAborted) ==
    IF st.run.hasMore /\ ~signalAborted THEN IssueRead(st) ELSE FinalReport(st)

\* The script's outcome: a compile or top-level failure, the structural check
\* (typeof project !== 'function'), or success.
LoadError(code) ==
    IF code.loadError # "none" THEN LoadMessage(code.loadError)
    ELSE IF ~code.defines THEN NoProjectMessage
    ELSE NoError

\* safeEvent: uuid: event.uuid || null, position: Number(event.position) || 0
SafeEvent(event) ==
    [uuid |-> IF event.uuid = NoUuid THEN NoUuid ELSE event.uuid,
     position |-> IF event.position = 0 THEN 0 ELSE event.position]

NextPositionSame(batch) == EventAt(batch.first + batch.len - 1).position
\* currentPosition = readResult.events[readResult.events.length - 1].position + 1
NextPosition(batch) == EventAt(batch.first + batch.len - 1).position + 1

HostParseOrNull(result) ==
    IF JSONparse(result) \in {Num(0), Str(0), Bool(FALSE)} THEN Null ELSE JSONparse(result)
\* currentState = JSON.parse(result)
HostParse(result) == JSONparse(result)

\* if (eventsProcessed % 100 === 0) onProgress({... status: 'running'})
ReportEveryOther(st) ==
    IF st.run.eventsProcessed % (2 * ProgressEvery) = 0
    THEN Emit(st, Progress(st.run.eventsProcessed, st.run.currentState, "running", NoError))
    ELSE st
ReportEvery(st) ==
    IF st.run.eventsProcessed % ProgressEvery = 0
    THEN Emit(st, Progress(st.run.eventsProcessed, st.run.currentState, "running", NoError))
    ELSE st

\* After the for loop: hasMore = readResult.has_more, the next start position,
\* and back to the while condition.
EndOfBatch(st, signalAborted) ==
    LET b == st.run.batch
        more == [st EXCEPT !.run.hasMore = b.has_more]
        moved == IF b.has_more /\ b.len > 0
                 THEN [more EXCEPT !.run.currentPosition = NextPosition(b)]
                 ELSE more
    IN WhileLoop(moved, signalAborted)

\* The event the for loop is at.
CurrentEvent(run) == EventAt(run.batch.first + run.idx - 1)

\* What crosses into the isolate for the current event, and what comes back.
StateJson(run) == JSONstringify(run.currentState)
StateArg(run) == JSONparse(StateJson(run))
RawResult(run) == Project(run.code.kind, StateArg(run), SafeEvent(CurrentEvent(run)))
ResultJson(run) == JSONstringify(RawResult(run))

\* The event indexes at which an invocation may fail for a reason of its own
\* (user code throws on that event, the timeout or the memory limit is hit):
\* the first events, and the events around a progress report and a page end.
FaultPoints ==
    {1, 3, ProgressEvery, ProgressEvery + 1, PageLimit, PageLimit + 1,
     MaxPages * PageLimit}

\* How an invocation may fail: by itself ("none": its result has no JSON
\* text), or because user code throws, the 5 s timeout or the memory limit
\* is hit.  Two runs over more than a page are followed through the failure
\* that disposes the isolate.
FailuresOf(which) ==
    IF which = "paged" THEN {"memory"} ELSE {"none", "throw", "timeout", "memory"}

\* The invocation for the current event fails by itself: JSON.parse(result)
\* throws when project returned undefined.
InvocationThrows(run) == ParseThrows(StateJson(run)) \/ ParseThrows(ResultJson(run))

Invoked(st) ==
    [st EXCEPT !.trace.calls = @ + 1,
               !.trace.attemptLog = <<>>,
               !.trace.failedEvents = 0,
               !.trace.lastEvent = SafeEvent(CurrentEvent(st.run)),
               !.trace.lastStateArg = StateArg(st.run),
               !.trace.lastResult = RawResult(st.run)]

\* if (!readResult || readResult.events.length === 0) break
EmptyBatchIsError(st) == OuterCatch(st, ReadMessage("plain"))
EmptyBatchBreak(st) == FinalReport(st)

\* if (this.abortController.signal.aborted) throw new Error('Projection aborted')
AbortBreaks(st) == FinalReport(st)
AbortThrow(st) == OuterCatch(st, AbortedMessage)

\* executeWithRetry: the error codes a read attempt may fail with, and the
\* ones that are retried (grpc.status.UNAVAILABLE, grpc.status.DEADLINE_EXCEEDED).
GrpcErrors == {"UNAVAILABLE", "DEADLINE_EXCEEDED", "INTERNAL"}
\* The events a read attempt may have received (stream 'data') when its
\* stream fails.
FailedEventsOf(which) == IF which = "any" THEN {0, 1} ELSE {0}

\* One attempt of readEvents: the operation builds its request from params
\* and collects into an events array of its own, so a second attempt reads
\* from the same start and hands over only what it received itself.
AttemptResumes(start, limit, lost) == ReadEvents(start + lost * stride, limit)
Attempt(start, limit, lost) == ReadEvents(start, limit)

GrpcErrorsOf(which) == IF which = "any" THEN GrpcErrors ELSE {"UNAVAILABLE"}
RetriesAnyError(code) == TRUE
IsTransient(code) == code \in {"UNAVAILABLE", "DEADLINE_EXCEEDED"}

\* req.on('close', ...) is registered after `await runProjection(...)`, by
\* the handler's continuation: it exists once that continuation has run.
CloseListening(t) == t.handler = "listening"

\* The promise of runProjection has settled and the handler's continuation
\* is queued as a microtask.  A run that settled after its first await is
\* followed by promise continuations only (no new request, no event of a
\* socket); a run that settled before it (the code did not load) is followed
\* by what the same turn of the event loop still holds (another request's
\* handler, the 'close' events), and by no answer of a read.
Settled(run) == run.pc \in {"returned", "threw"}
Queued(q) == Settled(runs[q]) /\ trace[q].handler = "awaiting"
QueuedAfterRead == \E q \in Runs : Queued(q) /\ trace[q].reads > 0
QueuedAtLoad == \E q \in Runs : Queued(q) /\ trace[q].reads = 0

\* Node emits 'close' on a request once its body has been read, at the tick
\* after the handler's synchronous section: before any read is answered and
\* before any handler's continuation.
ClosePending == \E q \in Runs : runs[q].pc # "idle" /\ trace[q].closed = "open"

\* A write after res.end() on a response that is not destroyed schedules an
\* 'error' event of the response for the next tick; nothing listens to it.
ErrorPending == \E q \in Runs : trace[q].response.lateError

\* The server process is running.
ServerUp == thread # Exited

\* disconnect(): if (this.client) { this.client.close(); this.client = null }
Disconnected(u) ==
    IF u.client # "null" THEN [u EXCEPT !.client = "null", !.last = "disconnect"] ELSE u

St(r) == [run |-> runs[r], trace |-> trace[r]]

\* The locals of runProjection belong to one call: a step of run r writes
\* run r's locals and nothing of another run.
CommitShared(r, st) ==
    /\ runs' = [q \in Runs |->
                   IF q = r THEN st.run
                   ELSE IF runs[q].pc = "idle" THEN runs[q]
                   ELSE [runs[q] EXCEPT !.currentState = st.run.currentState,
                                        !.eventsProcessed = st.run.eventsProcessed]]
    /\ trace' = [trace EXCEPT ![r] = st.trace]
Commit(r, st) ==
    /\ runs' = [runs EXCEPT ![r] = st.run]
    /\ trace' = [trace EXCEPT ![r] = st.trace]

\* ---------------------------------------------------------------- actions
\* runProjection up to its first await: new AbortController, load the code,
\* initial progress, first readEvents call.
Start(r) ==
    /\ r \in callers
    /\ thread = NoRun
    /\ ~QueuedAfterRead /\ ~ErrorPending
    /\ runs[r].pc = "idle"
    /\ \E code \in CodesOf(inputs), requested \in RequestStatesOf(inputs) :
        /\ LoadError(code) = NoError
        /\ LET init == HandlerInitialState(requested)
               st0 == [St(r) EXCEPT !.run.code = code,
                                    !.run.initialState = init,
                                    !.run.isolate = "live",
                                    !.run.currentState = init,
                                    !.run.eventsProcessed = 0,
                                    !.trace.requested = requested,
                                    !.trace.handler = "awaiting",
                                    !.trace.response = ResWrite(@, Connected)]
               st1 == InitialReport(st0)
               st2 == [st1 EXCEPT !.run.hasMore = TRUE,
                                  !.run.currentPosition = StartPosition]
           IN Commit(r, WhileLoop(st2, FALSE))
    /\ abortController' = r
    /\ aborted' = [aborted EXCEPT ![r] = FALSE]
    /\ UNCHANGED <<sse, umaDB, session, numEvents, stride, callers, inputs, thread>>

\* runProjection whose script fails to compile or run, or defines no project.
\* The error progress carries the error's message and the initial state; it
\* is as large as the code and the request make it.
StartLoadFails(r) ==
    /\ r \in callers
    /\ thread = NoRun
    /\ ~QueuedAfterRead /\ ~ErrorPending
    /\ runs[r].pc = "idle"
    /\ \E code \in CodesOf(inputs), requested \in RequestStatesOf(inputs), large \in BOOLEAN :
        /\ LoadError(code) # NoError
        /\ LET st0 == [St(r) EXCEPT !.run.code = code,
                                    !.run.initialState = HandlerInitialState(requested),
                                    !.run.isolate = "live",
                                    !.trace.requested = requested,
                                    !.trace.large = large,
                                    !.trace.handler = "awaiting",
                                    !.trace.response = ResWrite(@, Connected)]
           IN Commit(r, OuterCatch(st0, LoadError(code)))
    /\ abortController' = r
    /\ aborted' = [aborted EXCEPT ![r] = FALSE]
    /\ UNCHANGED <<sse, umaDB, session, numEvents, stride, callers, inputs, thread>>

\* The awaited readEvents call hands readResult to the run: an empty batch
\* breaks out of the loop, any other batch enters the for loop.
Received(r, batch) ==
    LET st0 == [St(r) EXCEPT
                   !.trace.readStatus = "resolved",
                   !.trace.attemptLog = Append(@, "ok"),
                   !.trace.lastHasMore = IF batch.has_more THEN "true" ELSE "false",
                   !.trace.lastLen = batch.len]
    IN IF batch.len = 0
       THEN /\ Commit(r, EmptyBatchBreak(st0))
            /\ thread' = NoRun
       ELSE /\ Commit(r, [st0 EXCEPT !.run.pc = "processing",
                                     !.run.batch = batch,
                                     !.run.idx = 1])
            /\ thread' = r

\* The pending readEvents of the UmaDBClient resolves.
ReadResolves(r) ==
    /\ thread = NoRun
    /\ ~QueuedAtLoad /\ ~ClosePending /\ ~ErrorPending
    /\ runs[r].pc = "reading"
    /\ Received(r, Attempt(runs[r].currentPosition, PageLimit, trace[r].failedEvents))
    /\ UNCHANGED <<sse, umaDB, session, numEvents, stride, callers, inputs, abortController, aborted>>

\* The engine reads through the object its constructor was given, and takes
\* from it whatever has the shape of an EventReadResponse: has_more is a
\* boolean and events an array, with nothing tying one to the other.  Such
\* an event source answers the pending read with some of the matching
\* events at or after the start position, a full page or fewer, and with
\* either flag.
SourceAnswers(r) ==
    /\ thread = NoRun
    /\ ~QueuedAtLoad /\ ~ClosePending /\ ~ErrorPending
    /\ runs[r].pc = "reading"
    /\ trace[r].reads <= MaxSourceReads
    /\ LET page == ReadEvents(runs[r].currentPosition, PageLimit)
       IN \E len \in (0..MaxSourceBatch) \cup {PageLimit}, more \in BOOLEAN :
            /\ len <= page.len
            /\ Received(r, [page EXCEPT !.len = len, !.has_more = more])
    /\ UNCHANGED <<sse, umaDB, session, numEvents, stride, callers, inputs, abortController, aborted>>

\* executeWithRetry, catch branch: the first attempt failed with a retried
\* code, so the operation is started once more.
ReadRetries(r) ==
    /\ thread = NoRun
    /\ ~QueuedAtLoad /\ ~ClosePending /\ ~ErrorPending
    /\ runs[r].pc = "reading"
    /\ runs[r].attempt = 1
    /\ \E code \in GrpcErrorsOf(inputs), lost \in FailedEventsOf(inputs) :
        /\ IsTransient(code)
        /\ lost <= ReadEvents(runs[r].currentPosition, PageLimit).len
        /\ Commit(r, [St(r) EXCEPT !.run.attempt = 2,
                                   !.trace.attemptLog = Append(@, code),
                                   !.trace.failedEvents = lost])
    /\ UNCHANGED <<sse, umaDB, session, numEvents, stride, callers, inputs, abortController, aborted, thread>>

\* The pending readEvents rejects: its first attempt failed with a code that
\* is not retried, or its second attempt failed.
ReadRejects(r) ==
    /\ thread = NoRun
    /\ ~QueuedAtLoad /\ ~ClosePending /\ ~ErrorPending
    /\ runs[r].pc = "reading"
    /\ \E code \in GrpcErrorsOf(inputs), kind \in {"plain", "marker"} :
        /\ runs[r].attempt = 2 \/ ~IsTransient(code)
        /\ Commit(r, OuterCatch([St(r) EXCEPT
                                    !.trace.readStatus = "rejected",
                                    !.trace.attemptLog = Append(@, code)],
                                ReadMessage(kind)))
    /\ UNCHANGED <<sse, umaDB, session, numEvents, stride, callers, inputs, abortController, aborted, thread>>

\* if (this.abortController.signal.aborted) throw new Error('Projection aborted')
ObserveAbort(r) ==
    /\ thread = r
    /\ runs[r].pc = "processing"
    /\ SignalAborted
    /\ Commit(r, AbortThrow(St(r)))
    /\ thread' = NoRun
    /\ UNCHANGED <<sse, umaDB, session, numEvents, stride, callers, inputs, abortController, aborted>>

\* One iteration of the for loop in which project returns a value that
\* survives the way back.
InvokeProject(r) ==
    /\ thread = r
    /\ runs[r].pc = "processing"
    /\ ~SignalAborted
    /\ ~InvocationThrows(runs[r])
    /\ LET st0 == Invoked(St(r))
           st1 == [st0 EXCEPT !.run.currentState = HostParse(ResultJson(runs[r])),
                              !.run.eventsProcessed = @ + 1]
           st2 == ReportEvery(st1)
       IN IF runs[r].idx < runs[r].batch.len
          THEN /\ Commit(r, [st2 EXCEPT !.run.idx = @ + 1])
               /\ thread' = r
          ELSE /\ Commit(r, EndOfBatch(st2, SignalAborted))
               /\ thread' = NoRun
    /\ UNCHANGED <<sse, umaDB, session, numEvents, stride, callers, inputs, abortController, aborted>>

\* One iteration of the for loop in which the invocation fails: user code
\* throws, the 5 s timeout or the memory limit is hit, or the result has no
\* JSON text.  Inner catch: error progress, then rethrow to the outer catch.
ProjectFails(r) ==
    /\ thread = r
    /\ runs[r].pc = "processing"
    /\ ~SignalAborted
    /\ \E failure \in FailuresOf(inputs) :
        /\ IF failure = "none" THEN InvocationThrows(runs[r])
           ELSE runs[r].batch.first + runs[r].idx - 1 \in FaultPoints
        /\ LET st0 == [Invoked(St(r)) EXCEPT
                          !.trace.failedAt = runs[r].batch.first + runs[r].idx - 1,
                          !.trace.failure = IF failure = "none" THEN "result" ELSE failure,
                          !.run.isolate = IF failure = "memory" THEN "disposed" ELSE @]
           IN Commit(r, InnerCatch(st0, CurrentEvent(runs[r])))
    /\ thread' = NoRun
    /\ UNCHANGED <<sse, umaDB, session, numEvents, stride, callers, inputs, abortController, aborted>>

\* ProjectionEngine.abort(), called on behalf of caller c at any time after
\* c's run has started.
Abort(c) ==
    /\ c \in callers
    /\ thread = NoRun
    /\ ~QueuedAfterRead /\ ~QueuedAtLoad /\ ~ErrorPending
    /\ runs[c].pc # "idle"
    /\ aborted' = IF abortController # NoRun
                  THEN [aborted EXCEPT ![abortController] = TRUE]
                  ELSE aborted
    /\ trace' = [trace EXCEPT ![c].abortAsked = TRUE,
                              ![c].abortSeen = (@ \/ runs[c].pc = "reading")]
    /\ UNCHANGED <<sse, umaDB, session, numEvents, stride, callers, inputs, abortController, thread, runs>>

\* The continuation of the handler after `await runProjection(...)`: when
\* the promise was rejected, the catch writes an error event and ends the
\* response; then the 'close' listener is registered.  A write after
\* res.end() is dropped when the response is destroyed already: the caller
\* has closed the connection, or the code did not load and the socket took
\* the whole response at once, so that it was finished in an earlier tick.
\* Otherwise (the run failed after its first await, or the error progress of
\* a failed load is still being written out) it makes the response emit
\* 'error' at the next tick, that is once the continuations queued by then
\* have run, and the process exits.
HandlerContinues(r) ==
    /\ thread = NoRun
    /\ Queued(r)
    /\ ~ClosePending
    /\ LET res == trace[r].response
           destroyed == trace[r].disconnected \/ (trace[r].reads = 0 /\ ~trace[r].large)
           late == runs[r].pc = "threw" /\ res.ended /\ ~destroyed
           caught == IF runs[r].pc = "threw" THEN HandlerCatch(res) ELSE res
       IN /\ trace' = [trace EXCEPT ![r].handler = "listening",
                                    ![r].response = [caught EXCEPT !.lateError = late]]
          /\ thread' = IF (late \/ ErrorPending) /\ \A q \in Runs \ {r} : ~Queued(q)
                       THEN Exited
                       ELSE NoRun
    /\ UNCHANGED <<sse, umaDB, session, numEvents, stride, callers, inputs, abortController,
                   aborted, runs>>

\* process.on('SIGINT'): await umaDB.disconnect(); process.exit(0)
Sigint ==
    /\ thread = NoRun
    /\ ~QueuedAfterRead /\ ~QueuedAtLoad /\ ~ClosePending /\ ~ErrorPending
    /\ umaDB' = Disconnected(umaDB)
    /\ thread' = Exited
    /\ UNCHANGED <<sse, session, numEvents, stride, callers, inputs, abortController,
                   aborted, runs, trace>>

\* The 'close' event of caller c's request.  Without a listener the event is
\* lost; the listener calls projectionEngine.abort() and res.end().  The
\* event comes before the handler's continuation registers the listener.
Close(c) ==
    /\ c \in callers
    /\ thread = NoRun
    /\ ~QueuedAfterRead /\ ~ErrorPending
    /\ runs[c].pc # "idle"
    /\ trace[c].closed = "open"
    /\ IF CloseListening(trace[c])
       THEN /\ aborted' = IF abortController # NoRun
                          THEN [aborted EXCEPT ![abortController] = TRUE]
                          ELSE aborted
            /\ trace' = [trace EXCEPT ![c].closed = "handled",
                                      ![c].abortAsked = TRUE,
                                      ![c].response = ResEnd(@)]
       ELSE /\ aborted' = aborted
            /\ trace' = [trace EXCEPT ![c].closed = "lost"]
    /\ UNCHANGED <<sse, umaDB, session, numEvents, stride, callers, inputs, abortController, thread, runs>>

\* The caller of request c closes the connection.  The request has emitted
\* its 'close' event before, and the handler listens to no event of the
\* response or of the socket: nothing of the run changes.
SocketClosed(c) ==
    /\ c \in callers
    /\ thread = NoRun
    /\ ~QueuedAfterRead /\ ~QueuedAtLoad /\ ~ClosePending /\ ~ErrorPending
    /\ runs[c].pc # "idle"
    /\ ~trace[c].disconnected
    /\ trace' = [trace EXCEPT ![c].disconnected = TRUE,
                              ![c].callsAtClose = trace[c].calls]
    /\ UNCHANGED <<sse, umaDB, session, numEvents, stride, callers, inputs, abortController,
                   aborted, thread, runs>>

\* ---------------------------------------------------- debug sessions
\* The debug session manager (start / step / reset / destroy) is not part of
\* the sources at hand; the client calls it through api.debugSessionStart,
\* api.debugSessionStep, api.debugSessionReset and api.debugSessionDestroy.
\* Its behaviour is taken from its description: a session holds the fields
\* of DebugSessionStatus and consumes one event per step.

\* The events a step loads at a time.
DebugBatchSize == 2

\* currentEvent: null
NoEvent == [uuid |-> NoUuid, position |-> 0]

IdleSession ==
    [status |-> "idle",
     code |-> [kind |-> "hash", defines |-> TRUE, loadError |-> "none"],
     initialState |-> Null,
     currentEventIndex |-> 0,
     totalEventsLoaded |-> 0,
     hasMore |-> FALSE,        \* the cursor reports more events
     currentState |-> Null,
     currentEvent |-> NoEvent,
     previousState |-> Null,
     error |-> NoError,
     stateChanged |-> FALSE,   \* DebugStepResponse.stateChanged of the last step
     processingComplete |-> FALSE,
     consoleLogs |-> 0,        \* console lines captured (their number)
     steps |-> 0,              \* events consumed since start or reset
     lastOp |-> "none"]        \* last call: start, rejected, step, failed, refused, reset

\* One invocation of project in the session's sandbox: the state and the
\* result cross the isolate boundary as JSON text.
DebugResultJsonSkips(s, event) == JSONstringify(s.currentState)
DebugResultJson(s, event) ==
    JSONstringify(Project(s.code.kind, JSONparse(JSONstringify(s.currentState)),
                          SafeEvent(event)))
DebugThrows(s, event) ==
    ParseThrows(JSONstringify(s.currentState)) \/ ParseThrows(DebugResultJson(s, event))

\* step: previousState := currentState
StepPreviousKept(s) == s.previousState
StepPrevious(s) == s.currentState

\* step: the session after consuming the next loaded event
Consume(s) ==
    LET event == EventAt(s.currentEventIndex + 1)
        result == JSONparse(DebugResultJson(s, event))
        last == (s.currentEventIndex + 1 = s.totalEventsLoaded) /\ ~s.hasMore
    IN [s EXCEPT !.previousState = StepPrevious(s),
                 !.currentEvent = SafeEvent(event),
                 !.currentState = result,
                 !.currentEventIndex = @ + 1,
                 !.steps = @ + 1,
                 !.lastOp = "step",
                 !.stateChanged = (result # s.currentState),
                 !.processingComplete = last,
                 !.status = IF last THEN "completed" ELSE "paused"]

\* step: the batch is exhausted and the cursor has more, so the next batch
\* is fetched as part of the same call.
Loaded(s) ==
    IF s.currentEventIndex = s.totalEventsLoaded /\ s.hasMore
    THEN LET batch == ReadEvents(EventAt(s.totalEventsLoaded).position + 1,
                                 DebugBatchSize)
         IN [s EXCEPT !.totalEventsLoaded = @ + batch.len,
                      !.hasMore = batch.has_more]
    ELSE s

\* The codes a debug session may be started with.
DebugCodesOf(which) == IF which = "debug" THEN Codes ELSE ConcCodes

\* start: the state the session begins with
StartStateNull(init) == Null
StartState(init) == init

\* reset: what becomes of the loaded events
ResetLoadedDropped(s) == 0
ResetLoaded(s) == s.totalEventsLoaded

\* step on a session that is not paused, or on no session: rejected
RefusedRestarts(s) == [s EXCEPT !.lastOp = "refused", !.status = "paused"]
Refused(s) == [s EXCEPT !.lastOp = "refused"]

\* start(code, initialState, filters): compile, load the first batch, return
\* the session paused with nothing consumed.  Code that does not load is
\* rejected and leaves no session.
DebugSessionStart ==
    /\ ServerUp
    /\ session.status = "idle"
    /\ \E code \in DebugCodesOf(inputs), init \in InitialStates :
        IF LoadError(code) # NoError
        THEN session' = [IdleSession EXCEPT !.lastOp = "rejected"]
        ELSE LET batch == ReadEvents(StartPosition, DebugBatchSize)
             IN session' = [IdleSession EXCEPT
                               !.status = "paused",
                               !.code = code,
                               !.initialState = init,
                               !.currentState = StartState(init),
                               !.totalEventsLoaded = batch.len,
                               !.hasMore = batch.has_more,
                               !.lastOp = "start"]
    /\ UNCHANGED <<sse, umaDB, numEvents, stride, callers, inputs, abortController, aborted,
                   thread, runs, trace>>

\* step(sessionId) on a paused session whose invocation succeeds, or that
\* finds no event left.
DebugSessionStep ==
    /\ ServerUp
    /\ session.status = "paused"
    /\ LET s == Loaded(session)
       IN IF s.currentEventIndex = s.totalEventsLoaded
          THEN session' = [s EXCEPT !.status = "completed",
                                    !.stateChanged = FALSE,
                                    !.processingComplete = TRUE,
                                    !.lastOp = "step"]
          ELSE /\ ~DebugThrows(s, EventAt(s.currentEventIndex + 1))
               /\ \E lines \in 0..1 :
                      session' = [Consume(s) EXCEPT !.consoleLogs = @ + lines]
    /\ UNCHANGED <<sse, umaDB, numEvents, stride, callers, inputs, abortController, aborted,
                   thread, runs, trace>>

\* step(sessionId) whose invocation fails: the session moves to error.
DebugSessionStepFails ==
    /\ ServerUp
    /\ session.status = "paused"
    /\ LET s == Loaded(session)
           event == EventAt(s.currentEventIndex + 1)
       IN /\ s.currentEventIndex < s.totalEventsLoaded
          /\ DebugThrows(s, event) \/ s.currentEventIndex + 1 \in FaultPoints
          /\ session' = [s EXCEPT !.status = "error",
                                  !.lastOp = "failed",
                                  !.error = EventErrorMessage(event),
                                  !.stateChanged = FALSE,
                                  !.processingComplete = FALSE]
    /\ UNCHANGED <<sse, umaDB, numEvents, stride, callers, inputs, abortController, aborted,
                   thread, runs, trace>>

\* reset(sessionId): back to the state right after start, keeping the
\* loaded events.
DebugSessionReset ==
    /\ ServerUp
    /\ session.status = "paused"
    /\ session' = [session EXCEPT !.currentState = session.initialState,
                                  !.previousState = Null,
                                  !.currentEvent = NoEvent,
                                  !.currentEventIndex = 0,
                                  !.totalEventsLoaded = ResetLoaded(session),
                                  !.consoleLogs = 0,
                                  !.steps = 0,
                                  !.lastOp = "reset",
                                  !.stateChanged = FALSE,
                                  !.processingComplete = FALSE]
    /\ UNCHANGED <<sse, umaDB, numEvents, stride, callers, inputs, abortController, aborted,
                   thread, runs, trace>>

\* step(sessionId) on a session in error or completed, or on an identifier
\* that names no session: rejected, nothing changes.
DebugSessionStepRefused ==
    /\ ServerUp
    /\ session.status \in {"idle", "error", "completed"}
    /\ session' = Refused(session)
    /\ UNCHANGED <<sse, umaDB, numEvents, stride, callers, inputs, abortController, aborted,
                   thread, runs, trace>>

\* destroy(sessionId): the session is gone.
DebugSessionDestroy ==
    /\ ServerUp
    /\ session.status # "idle"
    /\ session' = IdleSession
    /\ UNCHANGED <<sse, umaDB, numEvents, stride, callers, inputs, abortController, aborted,
                   thread, runs, trace>>

\* ------------------------------------------------------- UmaDBClient
\* The calls of connect() that may be in progress at the same time.
ConnectCalls == {1, 2}

\* executeWithRetry and ensureConnected put no limit on how deep one call
\* nests: the retry of a ping calls connect(), whose own ping may retry and
\* call connect() again, as long as each finds no client and isConnecting
\* false.  The depth followed here is bounded; a call at that depth whose
\* ping would nest once more is not followed further.
MaxReconnects == 2

\* new UmaDBClient(url): client = null, isConnecting = false
NewClient ==
    [client |-> "null",
     isConnecting |-> FALSE,
     pc |-> [k \in ConnectCalls |-> "idle"],  \* idle, loading, pinging, resolved, rejected
     attempt |-> [k \in ConnectCalls |-> 0],  \* attempt of the ping's executeWithRetry
     reconnects |-> [k \in ConnectCalls |-> 0], \* connect() calls nested in the call's ping
     starter |-> 0,                           \* the call made by startServer()
     last |-> "none"]                         \* what happened last

UnchangedButClient ==
    UNCHANGED <<numEvents, stride, callers, inputs, abortController, aborted,
                thread, runs, trace, session, sse>>

\* connect(): returns at once when a client exists, else sets isConnecting
\* and loads the proto definition.  The first call of the process is the one
\* of startServer().
Connect(k) ==
    /\ ServerUp
    /\ umaDB.pc[k] = "idle"
    /\ LET called == IF umaDB = NewClient THEN [umaDB EXCEPT !.starter = k] ELSE umaDB
       IN umaDB' = IF umaDB.client # "null"
                   THEN [called EXCEPT !.pc[k] = "resolved", !.last = "connected"]
                   ELSE [called EXCEPT !.pc[k] = "loading", !.isConnecting = TRUE,
                                       !.last = "connect"]
    /\ UnchangedButClient

\* ensureConnected() of an operation: connect() only if there is no client
\* and no connect call has set isConnecting.
EnsureConnected(k) ==
    /\ ServerUp
    /\ umaDB.pc[k] = "idle"
    /\ umaDB' = IF umaDB.client = "null" /\ ~umaDB.isConnecting
                THEN [umaDB EXCEPT !.pc[k] = "loading", !.isConnecting = TRUE,
                                   !.last = "reconnect"]
                ELSE [umaDB EXCEPT !.last = "ensured"]
    /\ UnchangedButClient

\* loadProtoDefinition resolves: this.client = new DCBService(...), then
\* await this.ping().
ProtoLoaded(k) ==
    /\ ServerUp
    /\ umaDB.pc[k] = "loading"
    /\ umaDB' = [umaDB EXCEPT !.client = "set", !.pc[k] = "pinging",
                              !.attempt[k] = 1, !.last = "loaded"]
    /\ UnchangedButClient

\* A connect() of call k rejects: catch { isConnecting = false; throw }.
\* A connect() nested in a ping rejects that ping's retry, and so every
\* connect() around it up to the call itself.
ConnectRejects(u, k, what) ==
    [u EXCEPT !.isConnecting = FALSE, !.pc[k] = "rejected", !.reconnects[k] = 0,
              !.last = what]

\* loadProtoDefinition rejects.
ProtoLoadFails(k) ==
    /\ ServerUp
    /\ umaDB.pc[k] = "loading"
    /\ umaDB' = ConnectRejects(umaDB, k, "loadfail")
    /\ UnchangedButClient

\* Head answers without error: the ping resolves whatever this.client is by
\* then, and connect() sets isConnecting = false.  When that connect() was
\* nested in the retry of a ping, the retry issues its operation: it throws
\* without a client, and calls Head a second time with one.
PingResolves(k) ==
    /\ ServerUp
    /\ umaDB.pc[k] = "pinging"
    /\ umaDB' = IF umaDB.reconnects[k] = 0
                THEN [umaDB EXCEPT !.isConnecting = FALSE, !.pc[k] = "resolved",
                                   !.last = "pong"]
                ELSE IF umaDB.client = "null"
                THEN ConnectRejects(umaDB, k, "pingfail")
                ELSE [umaDB EXCEPT !.isConnecting = FALSE, !.reconnects[k] = @ - 1,
                                   !.attempt[k] = 2, !.last = "reconnected"]
    /\ UnchangedButClient

\* The first attempt of the ping fails with a retried code while a client
\* exists: ensureConnected() has nothing to do and executeWithRetry runs the
\* operation once more.
PingRetries(k) ==
    /\ ServerUp
    /\ umaDB.pc[k] = "pinging"
    /\ umaDB.client # "null"
    /\ umaDB.attempt[k] = 1
    /\ \E code \in GrpcErrors :
        /\ IsTransient(code)
        /\ umaDB' = [umaDB EXCEPT !.attempt[k] = 2, !.last = "retry"]
    /\ UnchangedButClient

\* The first attempt of the ping fails with a retried code and there is no
\* client and no connect in progress: the ensureConnected() of the retry
\* calls connect().  reconnects[k] counts the connect() calls nested so far
\* (the depth of the call stack, which the code does not limit).
PingReconnects(k) ==
    /\ ServerUp
    /\ umaDB.pc[k] = "pinging"
    /\ umaDB.client = "null" /\ ~umaDB.isConnecting
    /\ umaDB.attempt[k] = 1
    /\ umaDB.reconnects[k] < MaxReconnects
    /\ \E code \in GrpcErrors :
        /\ IsTransient(code)
        /\ umaDB' = [umaDB EXCEPT !.pc[k] = "loading", !.isConnecting = TRUE,
                                  !.reconnects[k] = @ + 1, !.last = "retry"]
    /\ UnchangedButClient

\* The ping of connect() fails: a code that is not retried, the second
\* attempt, or a retry that finds no client while isConnecting is set (the
\* operation throws 'Client not connected').  this.client is left as it is.
PingRejects(k) ==
    /\ ServerUp
    /\ umaDB.pc[k] = "pinging"
    /\ \E code \in GrpcErrors :
        /\ \/ umaDB.attempt[k] = 2
           \/ ~IsTransient(code)
           \/ umaDB.client = "null" /\ umaDB.isConnecting
        /\ umaDB' = ConnectRejects(umaDB, k, "pingfail")
    /\ UnchangedButClient

\* The caller of a settled connect() goes on; the call is over.  startServer
\* ends the process when its connect() was rejected.
ConnectSettled(k) ==
    /\ ServerUp
    /\ umaDB.pc[k] \in {"resolved", "rejected"}
    /\ umaDB' = [umaDB EXCEPT !.pc[k] = "idle", !.attempt[k] = 0,
                              !.starter = IF @ = k THEN 0 ELSE @, !.last = "settled"]
    /\ thread' = IF umaDB.starter = k /\ umaDB.pc[k] = "rejected" THEN Exited ELSE thread
    /\ UNCHANGED <<numEvents, stride, callers, inputs, abortController, aborted,
                   runs, trace, session, sse>>

\* disconnect()
Disconnect ==
    /\ ServerUp
    /\ umaDB.client # "null"
    /\ umaDB' = Disconnected(umaDB)
    /\ UnchangedButClient

\* ------------------------------------------- the page's stream reader
\* The response text is a sequence of characters.  The characters that
\* matter to the reader are the newline, the characters of the 'data: '
\* prefix, and those of the JSON payload, which is written here as an
\* opening brace, one character standing for the object's content, and a
\* closing brace; the content is a progress snapshot or the connected status.
Ch(c) == [ch |-> c, k |-> 0, status |-> "none"]
Snap(k, status) == [ch |-> "snap", k |-> k, status |-> status]
NL == Ch("nl")
DataPrefix == <<Ch("d"), Ch(":")>>

\* 'event: connected\n' 'data: {"status": "connected"}\n\n'
ConnectedText ==
    <<Ch("e"), NL>> \o DataPrefix \o <<Ch("{"), Ch("conn"), Ch("}"), NL, NL>>

\* 'event: progress\n' `data: ${JSON.stringify(progress)}\n\n`
ProgressText(k, status) ==
    <<Ch("e"), NL>> \o DataPrefix \o <<Ch("{"), Snap(k, status), Ch("}"), NL, NL>>

\* The text of a response that carried the progress statuses `sent`.
RECURSIVE ProgressTexts(_, _)
ProgressTexts(sent, k) ==
    IF k > Len(sent) THEN <<>>
    ELSE ProgressText(k, sent[k]) \o ProgressTexts(sent, k + 1)
ResponseText(sent) == ConnectedText \o ProgressTexts(sent, 1)

\* The responses read: the statuses of the progress events of a run.
ResponseLogs ==
    {<<"completed">>, <<"error">>, <<"running", "completed">>,
     <<"running", "error">>, <<"running", "running", "completed">>}

\* setProgress(null)
NoProgress == Ch("null")

\* The progress object of the page's own catch: {events_processed: 0,
\* current_state: null, status: 'error', error: error.message}
PageError == Snap(0, "error")

\* buffer.split('\n')
RECURSIVE Split(_)
Split(text) ==
    IF \A i \in DOMAIN text : text[i] # NL THEN <<text>>
    ELSE LET i == CHOOSE j \in DOMAIN text :
                      text[j] = NL /\ \A h \in 1..(j - 1) : text[h] # NL
         IN <<SubSeq(text, 1, i - 1)>> \o Split(SubSeq(text, i + 1, Len(text)))

\* line.startsWith('data: ')
StartsWithData(line) ==
    Len(line) >= Len(DataPrefix) /\ SubSeq(line, 1, Len(DataPrefix)) = DataPrefix

\* JSON.parse(jsonString) succeeds
Parses(json) == Len(json) = 3 /\ json[1] = Ch("{") /\ json[3] = Ch("}")

\* One data line: parse what follows the prefix; a parsed object that has
\* events_processed is applied with setProgress, and setIsRunning(false)
\* follows when its status is completed or error.  st holds the page's
\* isRunning and progress together with the buffer of the call at work and
\* the arguments that call has passed to setProgress.
ApplyLine(st, line) ==
    LET json == SubSeq(line, Len(DataPrefix) + 1, Len(line))
    IN IF StartsWithData(line) /\ json # <<>> /\ Parses(json) /\ json[2].ch = "snap"
       THEN [st EXCEPT !.applied = Append(@, json[2]),
                       !.progress = json[2],
                       !.isRunning = IF json[2].status \in {"completed", "error"}
                                     THEN FALSE ELSE @]
       ELSE st

RECURSIVE ApplyLines(_, _)
ApplyLines(st, lines) ==
    IF lines = <<>> THEN st
    ELSE ApplyLines(ApplyLine(st, Head(lines)), Tail(lines))

\* buffer = lines.pop() || ''
KeepNothing(lines) == <<>>
KeepLast(lines) == lines[Len(lines)]

\* One turn of the read loop: append the chunk, apply the complete lines,
\* keep the last incomplete line.
Feed(st, chunk) ==
    LET lines == Split(st.buffer \o chunk)
        fed == ApplyLines(st, SubSeq(lines, 1, Len(lines) - 1))
    IN [fed EXCEPT !.buffer = KeepLast(lines)]

\* After the loop: process any remaining data in buffer.
Flush(st) == [ApplyLine(st, st.buffer) EXCEPT !.buffer = <<>>]

\* catch (error) { setProgress({... status: 'error' ...}); setIsRunning(false) }
PageCatch(st) ==
    [st EXCEPT !.applied = Append(@, PageError),
               !.progress = PageError,
               !.isRunning = FALSE]

\* The runProjection() calls of the page that may be in progress at the
\* same time: stopProjection() cancels neither the fetch nor the read loop,
\* so a call goes on after Stop while the next one is started.  Two calls
\* are followed at a time; a place is free again once its call has returned.
Loops == {1, 2}

\* What a call may have received of its response: what the server wrote,
\* whole or up to any character.
ResponseTexts ==
    UNION {{SubSeq(ResponseText(sent), 1, cut) : cut \in 0..Len(ResponseText(sent))} :
              sent \in ResponseLogs}

\* The locals of one runProjection() call right after the fetch call.
NewReader ==
    [request |-> "pending",   \* the fetch: idle (no call), pending, ok (a body to read), failed
     received |-> <<>>,       \* the characters reader.read() has delivered so far
     buffer |-> <<>>,
     applied |-> <<>>,        \* the arguments this call has passed to setProgress, in order
     split |-> FALSE,         \* some chunk ended inside a line
     failed |-> FALSE,        \* the call's catch has run
     done |-> FALSE]          \* the call has returned

NoReader == [NewReader EXCEPT !.request = "idle", !.done = TRUE]

\* The page after mount: useState(false), useState(null), no call made.
NewPage ==
    [isRunning |-> FALSE,
     progress |-> NoProgress,
     loops |-> [l \in Loops |-> NoReader]]

UnchangedButReader ==
    UNCHANGED <<numEvents, stride, callers, inputs, abortController, aborted,
                thread, runs, trace, session, umaDB>>

\* The page's state and the locals of call l, as the code of that call
\* sees them; and the page after a step of call l that left them as `st`.
View(page, l) ==
    [isRunning |-> page.isRunning,
     progress |-> page.progress,
     buffer |-> page.loops[l].buffer,
     applied |-> page.loops[l].applied]
Stepped(page, l, st, reader) ==
    [page EXCEPT !.isRunning = st.isRunning,
                 !.progress = st.progress,
                 !.loops[l] = [reader EXCEPT !.buffer = st.buffer,
                                             !.applied = st.applied]]

\* runProjection(): if (isRunning) return; setIsRunning(true);
\* setProgress(null); fetch.  The call takes the first place that no call
\* in progress holds.
RunProjection(l) ==
    /\ ~sse.isRunning
    /\ sse.loops[l].done
    /\ \A h \in Loops : h < l => ~sse.loops[h].done
    /\ sse' = [sse EXCEPT !.isRunning = TRUE,
                          !.progress = NoProgress,
                          !.loops[l] = NewReader]
    /\ UnchangedButReader

\* fetch resolves with response.ok and a body: getReader().
FetchResolves(l) ==
    /\ sse.loops[l].request = "pending"
    /\ sse' = [sse EXCEPT !.loops[l].request = "ok"]
    /\ UnchangedButReader

\* fetch rejects, or resolves with !response.ok or without a body: the
\* page's catch, and no read.
FetchFails(l) ==
    /\ sse.loops[l].request = "pending"
    /\ sse' = Stepped(sse, l, PageCatch(View(sse, l)),
                      [sse.loops[l] EXCEPT !.request = "failed", !.failed = TRUE,
                                           !.done = TRUE])
    /\ UnchangedButReader

\* reader.read() delivers the next chunk, of any length: the characters
\* that follow what was received, up to any character of a response.
ReadChunk(l) ==
    /\ sse.loops[l].request = "ok"
    /\ ~sse.loops[l].done
    /\ LET reader == sse.loops[l]
           had == Len(reader.received)
       IN \E text \in ResponseTexts :
            /\ Len(text) > had
            /\ SubSeq(text, 1, had) = reader.received
            /\ LET fed == Feed(View(sse, l), SubSeq(text, had + 1, Len(text)))
               IN sse' = Stepped(sse, l, fed,
                                 [reader EXCEPT !.received = text,
                                                !.split = @ \/ fed.buffer # <<>>])
    /\ UnchangedButReader

\* reader.read() reports done: the response has ended, after its last
\* character or cut off at any other.
ReadDone(l) ==
    /\ sse.loops[l].request = "ok"
    /\ ~sse.loops[l].done
    /\ sse' = Stepped(sse, l, Flush(View(sse, l)), [sse.loops[l] EXCEPT !.done = TRUE])
    /\ UnchangedButReader

\* reader.read() rejects: finally releaseLock(), then the page's catch.
ReadFails(l) ==
    /\ sse.loops[l].request = "ok"
    /\ ~sse.loops[l].done
    /\ sse' = Stepped(sse, l, PageCatch(View(sse, l)),
                      [sse.loops[l] EXCEPT !.failed = TRUE, !.done = TRUE])
    /\ UnchangedButReader

\* stopProjection(), the Stop button shown while isRunning:
\* setIsRunning(false); the fetch and its read loop go on.
StopProjection ==
    /\ sse.isRunning
    /\ sse' = [sse EXCEPT !.isRunning = FALSE]
    /\ UnchangedButReader

\* resetProjection(), the Reset button disabled while isRunning:
\* setProgress(null)
ResetProjection ==
    /\ ~sse.isRunning
    /\ sse' = [sse EXCEPT !.progress = NoProgress]
    /\ UnchangedButReader

\* ------------------------------------------------------- specifications
InitEngine ==
    /\ abortController = NoRun
    /\ aborted = [r \in Runs |-> FALSE]
    /\ thread = NoRun
    /\ runs = [r \in Runs |-> IdleRun]
    /\ trace = [r \in Runs |-> IdleTrace]
    /\ session = IdleSession
    /\ umaDB = NewClient
    /\ sse = NewPage

\* One caller.
Init ==
    /\ numEvents \in EventCounts
    /\ stride \in 1..MaxStride
    /\ callers = {1}
    /\ inputs = "any"
    /\ InitEngine

\* Two callers sharing the server's single ProjectionEngine.
ConcEventCounts == {0, 1, MaxConcEvents}
InitConc ==
    /\ numEvents \in ConcEventCounts
    /\ stride \in 1..MaxStride
    /\ callers = Runs
    /\ inputs = "plain"
    /\ InitEngine

\* One caller, on an engine whose event source answers as the type of
\* readEvents allows.
InitSource ==
    /\ numEvents \in {0, 1, MaxSourceBatch + 1, PageLimit + 1}
    /\ stride \in 1..MaxStride
    /\ callers = {1}
    /\ inputs = "source"
    /\ InitEngine

NextSource ==
    \E r \in Runs :
        \/ Start(r)
        \/ SourceAnswers(r)
        \/ InvokeProject(r)
        \/ Close(r)
        \/ HandlerContinues(r)

\* Two callers whose runs each read more than one page.
InitPaged ==
    /\ numEvents = PageLimit + 1
    /\ stride \in 1..MaxStride
    /\ callers = Runs
    /\ inputs = "paged"
    /\ InitEngine

NextPaged ==
    \E r \in Runs :
        \/ Start(r)
        \/ ReadResolves(r)
        \/ InvokeProject(r)
        \/ ProjectFails(r)
        \/ Close(r)
        \/ HandlerContinues(r)

Next ==
    \/ Sigint
    \/ \E r \in Runs :
            \/ Start(r)
            \/ StartLoadFails(r)
            \/ ReadResolves(r)
            \/ ReadRetries(r)
            \/ ReadRejects(r)
            \/ ObserveAbort(r)
            \/ InvokeProject(r)
            \/ ProjectFails(r)
            \/ Abort(r)
            \/ Close(r)
            \/ SocketClosed(r)
            \/ HandlerContinues(r)

\* A debug session over a short log.
MaxDebugEvents == 5
InitDebug ==
    /\ numEvents \in 0..MaxDebugEvents
    /\ stride \in 1..MaxStride
    /\ callers = {}
    /\ inputs = "debug"
    /\ InitEngine

NextDebug ==
    \/ DebugSessionStart
    \/ DebugSessionStep
    \/ DebugSessionStepFails
    \/ DebugSessionStepRefused
    \/ DebugSessionReset
    \/ DebugSessionDestroy
    \/ Sigint

\* The UmaDBClient on its own.
InitClient ==
    /\ numEvents = 0
    /\ stride = 1
    /\ callers = {}
    /\ inputs = "client"
    /\ InitEngine

NextClient ==
    \/ \E k \in ConnectCalls :
        \/ Connect(k)
        \/ EnsureConnected(k)
        \/ ProtoLoaded(k)
        \/ ProtoLoadFails(k)
        \/ PingResolves(k)
        \/ PingRetries(k)
        \/ PingReconnects(k)
        \/ PingRejects(k)
        \/ ConnectSettled(k)
    \/ Disconnect
    \/ Sigint

\* The projection page and the responses its runProjection() calls read.
InitSse ==
    /\ numEvents = 0
    /\ stride = 1
    /\ callers = {}
    /\ inputs = "sse"
    /\ InitEngine

NextSse ==
    \/ \E l \in Loops :
        \/ RunProjection(l)
        \/ FetchResolves(l)
        \/ FetchFails(l)
        \/ ReadChunk(l)
        \/ ReadDone(l)
        \/ ReadFails(l)
    \/ StopProjection
    \/ ResetProjection

\* A batch run and a debug session over the same short log.
InitBoth ==
    /\ numEvents \in 0..MaxDebugEvents
    /\ stride \in 1..MaxStride
    /\ callers = {1}
    /\ inputs = "both"
    /\ InitEngine

NextBoth == Next \/ NextDebug

Spec == Init /\ [][Next]_vars
SpecBoth == InitBoth /\ [][NextBoth]_vars
SpecSse == InitSse /\ [][NextSse]_vars
SpecClient == InitClient /\ [][NextClient]_vars
SpecDebug == InitDebug /\ [][NextDebug]_vars
SpecConc == InitConc /\ [][Next]_vars
SpecSource == InitSource /\ [][NextSource]_vars
SpecPaged == InitPaged /\ [][NextPaged]_vars

\* ------------------------------------------------------------- properties
IsTerminal(p) == p.status \in {"completed", "error"}
Finished(r) == runs[r].pc \in {"returned", "threw"}
Log(r) == trace[r].progress
Terminals(r) == {i \in DOMAIN Log(r) : IsTerminal(Log(r)[i])}
Errors(r) == {i \in DOMAIN Log(r) : Log(r)[i].status = "error"}
Started == {r \in Runs : runs[r].pc # "idle"}

\* The JSON round trip of a value.
RoundTrip(v) == JSONparse(JSONstringify(v))

\* The left fold of project over the matching events lo..hi, each step
\* crossing the isolate boundary as JSON in both directions.  The range is
\* split in halves; the events are still applied left to right.  The test
\* on state.t comes first so that the state is evaluated before the range is
\* split, which keeps the evaluation depth logarithmic.
RECURSIVE FoldRange(_, _, _, _)
FoldRange(kind, state, lo, hi) ==
    IF state.t = "none" \/ lo > hi THEN state
    ELSE IF lo = hi THEN RoundTrip(Project(kind, RoundTrip(state), EventAt(lo)))
    ELSE LET mid == (lo + hi) \div 2
         IN FoldRange(kind, FoldRange(kind, state, lo, mid), mid + 1, hi)

\* The state after the first n matching events.
StateAfter(r, n) == FoldRange(runs[r].code.kind, runs[r].initialState, 1, n)

\* C1: the events_processed values of one run's successive progress
\* emissions never decrease, whatever the run's outcome.
C1_ProgressNeverDecreases ==
    \A r \in Runs : \A i, j \in DOMAIN Log(r) :
        i < j => Log(r)[i].events_processed <= Log(r)[j].events_processed

\* C2: a run that was not aborted and has returned or thrown has emitted
\* exactly one terminal progress.
C2_TerminalAlwaysEmitted ==
    \A r \in Runs :
        (Finished(r) /\ ~trace[r].abortAsked) => Cardinality(Terminals(r)) = 1

\* C3: a run emits a terminal progress at most once and emits nothing
\* after it: a terminal progress is the last entry of the run's log.
C3_TerminalIsLast ==
    \A r \in Runs : \A i \in DOMAIN Log(r) :
        IsTerminal(Log(r)[i]) => i = Len(Log(r))

C3_Witness ==
    \E r \in Runs :
        /\ runs[r].pc = "threw"
        /\ trace[r].failedAt > ProgressEvery
        /\ Len(Log(r)) >= 3
        /\ Log(r)[Len(Log(r))].status = "error"

\* C4: a completed progress carries the number of matching events and the
\* left fold of project over all of them in position order.
C4_CompletedIsFullFold ==
    \A r \in Runs : \A i \in DOMAIN Log(r) :
        Log(r)[i].status = "completed" =>
            /\ Log(r)[i].events_processed = numEvents
            /\ Log(r)[i].current_state = StateAfter(r, numEvents)

C4_Witness ==
    \E r \in Runs :
        /\ runs[r].pc = "returned"
        /\ numEvents = MaxPages * PageLimit
        /\ trace[r].reads = MaxPages + 1
        /\ Log(r)[Len(Log(r))].status = "completed"
        /\ Log(r)[Len(Log(r))].events_processed = numEvents

\* C5: the positions of the events passed to project are strictly
\* increasing from one invocation to the next, inside a batch and across
\* batch boundaries.
C5_PositionsIncrease ==
    [][\A r \in Runs :
          (trace[r].calls > 0 /\ trace'[r].calls # trace[r].calls) =>
              trace'[r].lastEvent.position > trace[r].lastEvent.position]_vars

C5_Witness ==
    \E r \in Runs :
        /\ trace[r].calls = PageLimit + 1
        /\ trace[r].reads = 2
        /\ stride > 1

\* C6: the state passed to project for an event is the JSON round trip of
\* the value project returned for the event before it.
C6_StateIsRoundTrip ==
    [][\A r \in Runs :
          (trace[r].calls > 0 /\ trace'[r].calls # trace[r].calls) =>
              trace'[r].lastStateArg = RoundTrip(trace[r].lastResult)]_vars

C6_Witness ==
    \E r \in Runs :
        /\ trace[r].calls >= 2
        /\ runs[r].code.kind = "obj"
        /\ trace[r].lastResult.u
        /\ ~trace[r].lastStateArg.u
        /\ trace[r].lastStateArg.t = "obj"

\* C7: when project fails on the k-th event, the run emits exactly one error
\* progress, with events_processed = k-1, the state after the first k-1
\* events and a message naming that event; project is invoked on no later
\* event and no further batch is read.
C7_FailureReport ==
    \A r \in Runs :
        trace[r].failedAt > 0 =>
            LET k == trace[r].failedAt
                last == Log(r)[Len(Log(r))]
            IN /\ runs[r].pc = "threw"
               /\ Errors(r) = {Len(Log(r))}
               /\ last.events_processed = k - 1
               /\ last.current_state = StateAfter(r, k - 1)
               /\ last.error.what = "event"
               /\ last.error.uuid =
                      (IF EventAt(k).uuid = NoUuid THEN Unknown ELSE EventAt(k).uuid)
               /\ trace[r].calls = k
               /\ trace[r].reads = ((k - 1) \div PageLimit) + 1

C7_Witness ==
    \E r \in Runs :
        /\ trace[r].failedAt = PageLimit + 1
        /\ EventAt(trace[r].failedAt).uuid # NoUuid
        /\ runs[r].pc = "threw"

\* C8: user code that defines no callable project yields exactly one error
\* progress (0 events, the initial state), no running progress and no read.
C8_NoProjectReported ==
    \A r \in Runs :
        (runs[r].pc # "idle" /\ ~runs[r].code.defines) =>
            /\ Len(Log(r)) = 1
            /\ Log(r)[1].status = "error"
            /\ Log(r)[1].events_processed = 0
            /\ Log(r)[1].current_state = runs[r].initialState
            /\ trace[r].reads = 0

\* C9: a run during which abort() was called never emits a completed
\* progress, and ends in error.
C9_AbortNeverCompletes ==
    \A r \in Runs :
        trace[r].abortSeen =>
            /\ \A i \in DOMAIN Log(r) : Log(r)[i].status # "completed"
            /\ runs[r].pc # "returned"

\* C10: a run whose own caller never cancelled is never ended by another
\* caller's cancellation: it is never reported as aborted.
C10_CancelIsPerRun ==
    \A r \in Runs :
        ~trace[r].abortAsked =>
            /\ trace[r].thrown.what # "aborted"
            /\ \A i \in DOMAIN Log(r) : Log(r)[i].error.what # "aborted"

\* C11: once the caller of a run has disconnected while the run was in
\* progress, no further event is passed to project.
C11_DisconnectCancels ==
    \A r \in Runs :
        trace[r].disconnected => trace[r].calls = trace[r].callsAtClose

\* C12: a run that has returned or thrown, on whatever path, no longer
\* holds its isolate.
C12_IsolateReleased ==
    \A r \in Runs : Finished(r) => runs[r].isolate # "live"

\* The outcomes of the attempts of the last readEvents call.
Attempts(r) == trace[r].attemptLog

\* C13: one readEvents call makes at most two attempts; a second attempt is
\* made only after a first one failed with UNAVAILABLE or DEADLINE_EXCEEDED;
\* the call resolves with the result of the attempt that succeeded, and it
\* rejects with a first failure of any other kind or with the second failure.
C13_RetryOnce ==
    \A r \in Runs :
        LET a == Attempts(r)
        IN /\ Len(a) <= 2
           /\ runs[r].attempt <= 2
           /\ Len(a) = 2 => a[1] \in {"UNAVAILABLE", "DEADLINE_EXCEEDED"}
           /\ trace[r].readStatus = "pending" =>
                  /\ Len(a) = runs[r].attempt - 1
                  /\ \A i \in DOMAIN a : a[i] # "ok"
           /\ (trace[r].readStatus = "resolved" /\ a # <<>>) =>
                  /\ a[Len(a)] = "ok"
                  /\ \A i \in 1..(Len(a) - 1) : a[i] # "ok"
           /\ trace[r].readStatus = "rejected" =>
                  /\ a # <<>>
                  /\ \A i \in DOMAIN a : a[i] # "ok"
                  /\ Len(a) = 1 => a[1] \notin {"UNAVAILABLE", "DEADLINE_EXCEEDED"}
                  /\ runs[r].pc = "threw"
                  /\ trace[r].thrown.what = "read"

C13_Witness ==
    \E r \in Runs :
        /\ trace[r].readStatus = "resolved"
        /\ Attempts(r) = <<"DEADLINE_EXCEEDED", "ok">>
        /\ runs[r].pc = "processing"

\* The position of the last event the run has received.
LastReceived(r) == EventAt(runs[r].batch.first + runs[r].batch.len - 1).position

C15_NothingMatches ==
    \A r \in Runs :
        numEvents = 0 =>
            /\ trace[r].calls = 0
            /\ trace[r].readStatus = "resolved" =>
                   /\ runs[r].pc = "returned"
                   /\ Log(r) = <<Progress(0, runs[r].initialState, "running", NoError),
                                 Progress(0, runs[r].initialState, "completed", NoError)>>

C15_Witness ==
    \E r \in Runs :
        /\ numEvents = 0
        /\ runs[r].pc = "returned"
        /\ runs[r].initialState = Num(5)
        /\ Len(Log(r)) = 2

\* C16: two runs with the same code and the same initial state that both
\* ran to completion over the same events hold the same final state and the
\* same count, and have emitted the same progress sequence.
C16_Deterministic ==
    \A r1, r2 \in Runs :
        (/\ runs[r1].pc = "returned" /\ runs[r2].pc = "returned"
         /\ runs[r1].code = runs[r2].code
         /\ runs[r1].initialState = runs[r2].initialState) =>
            /\ runs[r1].currentState = runs[r2].currentState
            /\ runs[r1].eventsProcessed = runs[r2].eventsProcessed
            /\ Log(r1) = Log(r2)

C16_Witness ==
    /\ numEvents = MaxConcEvents
    /\ \A r \in Runs : runs[r].pc = "returned" /\ runs[r].eventsProcessed = MaxConcEvents
    /\ runs[1].code = runs[2].code
    /\ runs[1].initialState = runs[2].initialState
    /\ runs[1].currentState # runs[1].initialState

\* C17: a started run's initial state is the initialState of the request
\* body, whatever JSON value that is, and null when the body has none.
C17_InitialStateAsRequested ==
    \A r \in Started :
        runs[r].initialState =
            (IF trace[r].requested = Undefined THEN Null ELSE trace[r].requested)

\* C18: the i-th invocation of project is on the i-th event, so no event
\* is passed twice; an invocation that fails, by an exception, the timeout
\* or the memory limit alike, is the run's last one and ends the run with
\* one error progress naming that event.
C18_FailureIsFinal ==
    \A r \in Runs :
        /\ trace[r].calls > 0 =>
               trace[r].lastEvent = SafeEvent(EventAt(trace[r].calls))
        /\ trace[r].failure # "none" =>
               /\ runs[r].pc = "threw"
               /\ trace[r].calls = trace[r].failedAt
               /\ runs[r].eventsProcessed = trace[r].failedAt - 1
               /\ Cardinality(Errors(r)) = 1
               /\ Log(r)[Len(Log(r))].error =
                      EventErrorMessage(EventAt(trace[r].failedAt))
               /\ trace[r].thrown = EventErrorMessage(EventAt(trace[r].failedAt))

C18_Witness ==
    \E r \in Runs :
        /\ trace[r].failure = "timeout"
        /\ trace[r].failedAt = ProgressEvery + 1
        /\ numEvents > ProgressEvery + 1

\* C19: a run whose code has loaded has a running progress with 0 events
\* and the initial state as its first progress, and has emitted it before
\* its first readEvents call.
C19_HeartbeatBeforeRead ==
    \A r \in Started :
        /\ LoadError(runs[r].code) = NoError =>
               /\ Len(Log(r)) >= 1
               /\ Log(r)[1] = Progress(0, runs[r].initialState, "running", NoError)
        /\ trace[r].reads >= 1 =>
               /\ LoadError(runs[r].code) = NoError
               /\ trace[r].firstReadAfter = 1

C19_Witness ==
    \E r \in Runs :
        /\ runs[r].pc = "reading"
        /\ trace[r].reads = 1
        /\ runs[r].initialState = Num(5)
        /\ Len(Log(r)) = 1

\* The session's state after its first n events.
SessionStateAfter(n) == FoldRange(session.code.kind, session.initialState, 1, n)

\* C20: a session that has consumed k events since start holds
\* currentEventIndex = k, the k-th event as currentEvent, the state after k
\* events as currentState and the state after k-1 events as previousState;
\* on a source with more than k events it is paused.
C20_StepAdvancesOne ==
    (session.status \in {"paused", "completed"} /\ session.steps > 0) =>
        LET k == session.steps
        IN /\ session.currentEventIndex = k
           /\ session.currentEvent = SafeEvent(EventAt(k))
           /\ session.currentState = SessionStateAfter(k)
           /\ session.previousState = SessionStateAfter(k - 1)
           /\ numEvents > k => session.status = "paused"

C20_Witness ==
    /\ numEvents = 5
    /\ session.status = "paused"
    /\ session.steps = 3
    /\ session.currentEventIndex = 3
    /\ session.previousState # session.currentState
    /\ session.previousState # session.initialState

\* C21: a session just started is paused with nothing consumed, no current
\* event, no previous state and the supplied initial state as its state;
\* a start with code that does not load leaves no session, and every
\* session's code defines project.
C21_StartPaused ==
    /\ session.lastOp = "start" =>
           /\ session.status = "paused"
           /\ session.currentEventIndex = 0
           /\ session.currentEvent = NoEvent
           /\ session.previousState = Null
           /\ session.currentState = session.initialState
           /\ session.consoleLogs = 0
    /\ session.lastOp = "rejected" => session.status = "idle"
    /\ session.status # "idle" =>
           session.code.defines /\ session.code.loadError = "none"

C21_Witness ==
    /\ session.lastOp = "start"
    /\ session.status = "paused"
    /\ session.initialState = Num(5)
    /\ session.totalEventsLoaded = DebugBatchSize

\* C22: a reset sets currentState to the session's initial state, clears
\* previousState and the console log, sets the counters to zero, and leaves
\* totalEventsLoaded and the cursor's has-more flag as they were.
C22_ResetKeepsLoaded ==
    [][session'.lastOp = "reset" =>
          /\ session'.currentState = session.initialState
          /\ session'.initialState = session.initialState
          /\ session'.previousState = Null
          /\ session'.consoleLogs = 0
          /\ session'.currentEventIndex = 0
          /\ session'.steps = 0
          /\ session'.totalEventsLoaded = session.totalEventsLoaded
          /\ session'.hasMore = session.hasMore
          /\ session'.status = "paused"]_vars

C22_Witness ==
    /\ session.lastOp = "reset"
    /\ session.totalEventsLoaded > DebugBatchSize
    /\ session.currentState = session.initialState
    /\ session.initialState = Num(5)

\* C23: a step on a session in error or completed, or on no session, is
\* refused and changes nothing of the session; a session in error stays in
\* error with the same fields until it is destroyed.
C23_RefusedStepChangesNothing ==
    [][/\ (session.status \in {"idle", "error", "completed"}
           /\ session'.lastOp = "refused") =>
              [session' EXCEPT !.lastOp = session.lastOp] = session
       /\ (session.status = "error" /\ session'.status # "idle") =>
              /\ session'.status = "error"
              /\ session'.currentState = session.currentState
              /\ session'.currentEventIndex = session.currentEventIndex
              /\ session'.steps = session.steps]_vars

C23_Witness ==
    /\ session.status = "error"
    /\ session.lastOp = "refused"
    /\ session.steps > 0

\* C25: the response of a run is never written to after it was ended.
C25_NoWriteAfterEnd ==
    \A r \in Runs : trace[r].response.afterEnd = 0

\* The running reports of a run alone over the events done + 1 .. n,
\* starting from `state`: one for every ProgressEvery events.
RECURSIVE RunningReports(_, _, _, _)
RunningReports(kind, state, done, n) ==
    IF state.t = "none" \/ done + ProgressEvery > n THEN <<>>
    ELSE LET next == FoldRange(kind, state, done + 1, done + ProgressEvery)
         IN <<Progress(done + ProgressEvery, next, "running", NoError)>>
                \o RunningReports(kind, next, done + ProgressEvery, n)

\* The progress sequence of a run alone that has processed n events and
\* then made its last report.
AloneLog(r, n, status, error) ==
    <<Progress(0, runs[r].initialState, "running", NoError)>>
        \o RunningReports(runs[r].code.kind, runs[r].initialState, 0, n)
        \o <<Progress(n, StateAfter(r, n), status, error)>>

C27_RetryRestartsRead ==
    \A r \in Runs :
        runs[r].pc = "processing" =>
            LET b == runs[r].batch
            IN /\ b.first + runs[r].idx - 1 = trace[r].calls + 1
               /\ EventAt(b.first).position >= trace[r].readStart
               /\ b.first > 1 => EventAt(b.first - 1).position < trace[r].readStart
               /\ b.len = (IF numEvents - b.first + 1 < PageLimit
                           THEN numEvents - b.first + 1 ELSE PageLimit)

C27_Witness ==
    \E r \in Runs :
        /\ runs[r].pc = "processing"
        /\ trace[r].failedEvents = 1
        /\ Attempts(r) = <<"UNAVAILABLE", "ok">>
        /\ trace[r].reads = 2
        /\ runs[r].batch.first = PageLimit + 1

\* The running progress entries of a run's log.
Running(r) == {i \in DOMAIN Log(r) : Log(r)[i].status = "running"}

\* C28: the i-th running progress of a run reports (i-1)*100 events, the
\* run has emitted one for every multiple of 100 it has reached, and the
\* one emitted when the count reached a multiple of 100 carries the state
\* after exactly that many events.
C28_ProgressCadence ==
    \A r \in Started :
        LoadError(runs[r].code) = NoError =>
            LET n == runs[r].eventsProcessed
            IN /\ \A i \in Running(r) : Log(r)[i].events_processed = (i - 1) * ProgressEvery
               /\ Running(r) = 1..((n \div ProgressEvery) + 1)
               /\ (n > 0 /\ n % ProgressEvery = 0) =>
                      Log(r)[(n \div ProgressEvery) + 1].current_state = runs[r].currentState
               /\ (n > 0 /\ n % ProgressEvery = 0
                      /\ runs[r].pc = "processing") =>
                      runs[r].currentState = StateAfter(r, n)

C28_Witness ==
    \E r \in Runs :
        /\ runs[r].pc = "processing"
        /\ runs[r].eventsProcessed = PageLimit + ProgressEvery
        /\ Cardinality(Running(r)) = (PageLimit \div ProgressEvery) + 2

\* C29: right after a connect() call has failed at its ping, the client is
\* disconnected (client = null, isConnecting = false); and isConnecting is
\* true only while some connect call is in progress.
C29_FailedConnectDisconnects ==
    /\ umaDB.last = "pingfail" =>
           umaDB.client = "null" /\ ~umaDB.isConnecting
    /\ umaDB.isConnecting =>
           \E k \in ConnectCalls : umaDB.pc[k] \in {"loading", "pinging"}

\* A call that reads alone from a fresh page.
FreshView == [isRunning |-> TRUE, progress |-> NoProgress, buffer |-> <<>>, applied |-> <<>>]

\* The snapshots of a response, in the order sent.
SentSnapshots(sent) == [k \in 1..Len(sent) |-> Snap(k, sent[k])]

\* Call l is in progress.
Reading(page, l) == page.loops[l].request \in {"pending", "ok"} /\ ~page.loops[l].done

\* What each call has applied is what one chunk holding the same text gives.
ChunkingIrrelevant ==
    \A l \in Loops :
        LET reader == sse.loops[l]
            one == Feed(FreshView, reader.received)
        IN /\ (reader.request = "ok" /\ ~reader.done) =>
                  /\ reader.applied = one.applied
                  /\ reader.buffer = one.buffer
           /\ (reader.request = "ok" /\ reader.done /\ ~reader.failed) =>
                  /\ reader.applied = Flush(one).applied
                  /\ \A sent \in ResponseLogs :
                         reader.received = ResponseText(sent) =>
                             reader.applied = SentSnapshots(sent)
           /\ (reader.request = "ok" /\ reader.failed) =>
                  reader.applied = Append(one.applied, PageError)

\* A step of a call in progress sets isRunning to false if it applied a
\* completed or error progress and leaves it alone if not, and leaves the
\* page showing the last progress it applied.
AppliedInStep ==
    \A l \in Loops :
        (Reading(sse, l) /\ sse'.loops[l] # sse.loops[l]) =>
            LET before == sse.loops[l].applied
                after == sse'.loops[l].applied
                new == SubSeq(after, Len(before) + 1, Len(after))
            IN /\ SubSeq(after, 1, Len(before)) = before
               /\ sse'.isRunning =
                      IF \E i \in DOMAIN new : new[i].status \in {"completed", "error"}
                      THEN FALSE ELSE sse.isRunning
               /\ sse'.progress = IF new = <<>> THEN sse.progress ELSE new[Len(new)]

\* C30: however the text of a response is cut into chunks, the call reading
\* it has applied the snapshots that one chunk holding the same text gives,
\* in that order, whatever the page does meanwhile (Stop, Reset, another
\* call started after Stop and reading its own response); for a response
\* received whole these are the snapshots sent, the last applied being the
\* last sent; and a step of the call clears isRunning exactly when it
\* applies a progress whose status is completed or error.
C30_ChunkingIrrelevant == []ChunkingIrrelevant /\ [][AppliedInStep]_vars

C30_Witness ==
    /\ \A l \in Loops :
        /\ sse.loops[l].request = "ok" /\ sse.loops[l].done /\ ~sse.loops[l].failed
        /\ sse.loops[l].split
    /\ sse.loops[1].received = ResponseText(<<"running", "running", "completed">>)
    /\ sse.loops[2].received = ResponseText(<<"running", "completed">>)
    /\ Len(sse.loops[1].applied) = 3
    /\ ~sse.isRunning
    /\ sse.progress = Snap(3, "completed")

\* C24: a debug session stepped to completion and a batch run that
\* returned, with the same code and initial state over the same events,
\* hold the same final state and have processed the same number of events.
C24_DebugEqualsBatch ==
    \A r \in Runs :
        (/\ runs[r].pc = "returned"
         /\ session.status = "completed"
         /\ runs[r].code = session.code
         /\ runs[r].initialState = session.initialState) =>
            /\ session.currentState = runs[r].currentState
            /\ session.currentEventIndex = runs[r].eventsProcessed

C24_Witness ==
    /\ numEvents = MaxDebugEvents
    /\ runs[1].pc = "returned"
    /\ session.status = "completed"
    /\ runs[1].code = session.code
    /\ runs[1].initialState = session.initialState
    /\ session.currentEventIndex = MaxDebugEvents
    /\ session.currentState # session.initialState

====
